---------------------------- MODULE Spec2Model ----------------------------
(***************************************************************************)
(* A model of three pieces of pgx:                                         *)
(*   - ControlFile::from_str        (pgx/src/datum/inventory/control_file.rs) *)
(*   - MaybeVariadicType(List)::new (pgx-utils/.../maybe_variadic_type.rs) *)
(*   - IntegerAvgState              (pgx-examples/aggregate/src/lib.rs)    *)
(* Text is modelled as a sequence of one-character strings, so that        *)
(* splitting, trimming, formatting and parsing are computed character by   *)
(* character as the Rust code computes them.                               *)
(***************************************************************************)
EXTENDS Integers, Sequences, FiniteSets, TLC

VARIABLES
    pc,         \* position of the program under study: "start", then "done"
    input,      \* control_file.rs: `input`, its lines each named by its index in Lines
    temp,       \* control_file.rs: the HashMap `temp`, key -> value
    result,     \* control_file.rs: what from_str returned
    ty,         \* maybe_variadic_type.rs: the syn::Type handed to new
    shape,      \* maybe_variadic_type.rs: what MaybeVariadicType::new returned
    list,       \* maybe_variadic_type.rs: what MaybeVariadicTypeList::new returned
    state,      \* aggregate/lib.rs: the IntegerAvgState that output writes
    buffer,     \* aggregate/lib.rs: the StringInfo output fills, the CStr input reads
    parsed,     \* aggregate/lib.rs: what IntegerAvgState::input returned
    profile,    \* aggregate/lib.rs: "debug" (overflow checks on) or "release"
    states,     \* aggregate/lib.rs: every IntegerAvgState made so far, oldest first
    vs,         \* aggregate/lib.rs: the values accumulated so far
    final       \* aggregate/lib.rs: what finalize returned, or the panic of a step

controlVars  == <<input, temp, result>>
variadicVars == <<ty, shape, list>>
textVars     == <<state, buffer, parsed>>
aggVars      == <<profile, states, vs, final>>

vars == <<pc, controlVars, variadicVars, textVars, aggVars>>

\* a result not yet returned
NoResult == [kind |-> "none"]

\* the variables of the programs a specification does not run
ControlIdle  == input = <<>> /\ temp = <<>> /\ result = NoResult
VariadicIdle == ty = NoResult /\ shape = NoResult /\ list = NoResult
TextIdle     == state = NoResult /\ buffer = <<>> /\ parsed = NoResult
AggIdle      == profile = "" /\ states = <<>> /\ vs = <<>> /\ final = NoResult

(***************************************************************************)
(* Text helpers (Rust's str methods).                                      *)
(***************************************************************************)

\* char::is_whitespace, restricted to the characters the inputs use
Whitespace == {" ", "\t"}

\* str::split(c), collected: the pieces between every occurrence of c
RECURSIVE split_from(_, _, _, _)
split_from(s, c, cur, i) ==
    IF i > Len(s) THEN <<cur>>
    ELSE IF s[i] = c THEN <<cur>> \o split_from(s, c, <<>>, i + 1)
    ELSE split_from(s, c, Append(cur, s[i]), i + 1)

split(s, c) == split_from(s, c, <<>>, 1)

\* str::trim_start
RECURSIVE trim_start(_)
trim_start(s) ==
    IF s # <<>> /\ Head(s) \in Whitespace THEN trim_start(Tail(s)) ELSE s

\* str::trim_end
RECURSIVE trim_end(_)
trim_end(s) ==
    IF s # <<>> /\ s[Len(s)] \in Whitespace
    THEN trim_end(SubSeq(s, 1, Len(s) - 1)) ELSE s

\* str::trim
trim(s) == trim_end(trim_start(s))

\* str::trim_start_matches(c): removes every leading c
RECURSIVE trim_start_matches(_, _)
trim_start_matches(s, c) ==
    IF s # <<>> /\ Head(s) = c THEN trim_start_matches(Tail(s), c) ELSE s

\* str::trim_end_matches(c): removes every trailing c
RECURSIVE trim_end_matches(_, _)
trim_end_matches(s, c) ==
    IF s # <<>> /\ s[Len(s)] = c
    THEN trim_end_matches(SubSeq(s, 1, Len(s) - 1), c) ELSE s

(***************************************************************************)
(* ControlFile::from_str                                                   *)
(***************************************************************************)

K_comment         == <<"c", "o", "m", "m", "e", "n", "t">>
K_default_version == <<"d", "e", "f", "a", "u", "l", "t", "_", "v", "e", "r", "s", "i", "o", "n">>
K_module_pathname == <<"m", "o", "d", "u", "l", "e", "_", "p", "a", "t", "h", "n", "a", "m", "e">>
K_relocatable     == <<"r", "e", "l", "o", "c", "a", "t", "a", "b", "l", "e">>
K_superuser       == <<"s", "u", "p", "e", "r", "u", "s", "e", "r">>
K_schema          == <<"s", "c", "h", "e", "m", "a">>
V_true            == <<"t", "r", "u", "e">>

EmptyMap == [x \in {} |-> <<>>]
\* Option<String>
None == [some |-> FALSE, v |-> <<>>]
Some(x) == [some |-> TRUE, v |-> x]

\* a parser that splits on the first `=` only (splitn(2, '='))
parse_line_first_eq(line) ==
    LET parts == split(line, "=")
        rest(i) == SubSeq(parts, i, Len(parts))
        RECURSIVE join(_)
        join(ps) == IF Len(ps) = 1 THEN ps[1]
                    ELSE ps[1] \o <<"=">> \o join(Tail(ps))
    IN  IF Len(parts) < 2
        THEN [accepted |-> FALSE, k |-> <<>>, v |-> <<>>]
        ELSE [accepted |-> TRUE,
              k |-> trim(parts[1]),
              v |-> trim_end_matches(
                        trim_start_matches(trim(join(rest(2))), "'"), "'")]

\* One iteration of the loop over input.lines() (lines 42-53): the (k, v)
\* inserted, or a skipped line
parse_line(line) ==
    LET parts == split(line, "=")
    IN  IF Len(parts) # 2
        THEN [accepted |-> FALSE, k |-> <<>>, v |-> <<>>]
        ELSE [accepted |-> TRUE,
              k |-> trim(parts[1]),
              v |-> trim_end_matches(
                        trim_start_matches(trim(parts[2]), "'"), "'")]

(***************************************************************************)
(* Manifests the parser is run on.                                         *)
(***************************************************************************)

L_comment    == <<"c", "o", "m", "m", "e", "n", "t", " ", "=", " ", "'", "d", "e", "m", "o", "'">>
L_version    == <<"d", "e", "f", "a", "u", "l", "t", "_", "v", "e", "r", "s", "i", "o", "n", " ", "=", " ", "'", "1", ".", "0", "'">>
L_module     == <<"m", "o", "d", "u", "l", "e", "_", "p", "a", "t", "h", "n", "a", "m", "e", " ", "=", " ", "'", "$", "l", "i", "b", "d", "i", "r", "/", "d", "e", "m", "o", "'">>
L_reloc      == <<"r", "e", "l", "o", "c", "a", "t", "a", "b", "l", "e", " ", "=", " ", "t", "r", "u", "e">>
L_super      == <<"s", "u", "p", "e", "r", "u", "s", "e", "r", "=", "f", "a", "l", "s", "e">>
L_schema     == <<"s", "c", "h", "e", "m", "a", "=", "p", "u", "b", "l", "i", "c">>
L_comment_eq == <<"c", "o", "m", "m", "e", "n", "t", " ", "=", " ", "'", "a", "=", "b", "'">>
L_note       == <<"#", " ", "d", "e", "m", "o", " ", "e", "x", "t", "e", "n", "s", "i", "o", "n">>
L_comment2   == <<" ", " ", "c", "o", "m", "m", "e", "n", "t", " ", "=", " ", "'", "o", "t", "h", "e", "r", "'", " ", " ">>

\* relocatable lines, one per spelling of the value
R_true     == <<"r", "e", "l", "o", "c", "a", "t", "a", "b", "l", "e", " ", "=", " ", "t", "r", "u", "e">>
R_qtrue    == <<"r", "e", "l", "o", "c", "a", "t", "a", "b", "l", "e", " ", "=", " ", "'", "t", "r", "u", "e", "'">>
R_qTrue    == <<"r", "e", "l", "o", "c", "a", "t", "a", "b", "l", "e", " ", "=", " ", "'", "T", "r", "u", "e", "'">>
R_q1       == <<"r", "e", "l", "o", "c", "a", "t", "a", "b", "l", "e", " ", "=", " ", "'", "1", "'">>
R_qTRUE    == <<"r", "e", "l", "o", "c", "a", "t", "a", "b", "l", "e", " ", "=", " ", "'", "T", "R", "U", "E", "'">>
R_qyes     == <<"r", "e", "l", "o", "c", "a", "t", "a", "b", "l", "e", " ", "=", " ", "'", "y", "e", "s", "'">>
R_empty    == <<"r", "e", "l", "o", "c", "a", "t", "a", "b", "l", "e", " ", "=">>
R_qspaced  == <<"r", "e", "l", "o", "c", "a", "t", "a", "b", "l", "e", " ", "=", " ", "'", " ", "t", "r", "u", "e", " ", "'">>
R_qqtrue   == <<"r", "e", "l", "o", "c", "a", "t", "a", "b", "l", "e", " ", "=", " ", "'", "'", "t", "r", "u", "e", "'", "'">>
R_false    == <<"r", "e", "l", "o", "c", "a", "t", "a", "b", "l", "e", " ", "=", " ", "f", "a", "l", "s", "e">>

\* superuser lines, one per spelling of the value
U_true     == <<"s", "u", "p", "e", "r", "u", "s", "e", "r", " ", "=", " ", "t", "r", "u", "e">>
U_qtrue    == <<"s", "u", "p", "e", "r", "u", "s", "e", "r", " ", "=", " ", "'", "t", "r", "u", "e", "'">>
U_qTrue    == <<"s", "u", "p", "e", "r", "u", "s", "e", "r", " ", "=", " ", "'", "T", "r", "u", "e", "'">>
U_q1       == <<"s", "u", "p", "e", "r", "u", "s", "e", "r", " ", "=", " ", "'", "1", "'">>
U_qTRUE    == <<"s", "u", "p", "e", "r", "u", "s", "e", "r", " ", "=", " ", "'", "T", "R", "U", "E", "'">>
U_qyes     == <<"s", "u", "p", "e", "r", "u", "s", "e", "r", " ", "=", " ", "'", "y", "e", "s", "'">>
U_empty    == <<"s", "u", "p", "e", "r", "u", "s", "e", "r", " ", "=">>
U_qspaced  == <<"s", "u", "p", "e", "r", "u", "s", "e", "r", " ", "=", " ", "'", " ", "t", "r", "u", "e", " ", "'">>
U_qqtrue   == <<"s", "u", "p", "e", "r", "u", "s", "e", "r", " ", "=", " ", "'", "'", "t", "r", "u", "e", "'", "'">>
U_false    == <<"s", "u", "p", "e", "r", "u", "s", "e", "r", " ", "=", " ", "f", "a", "l", "s", "e">>

BaseLines == <<L_comment, L_version, L_module, L_reloc, L_super, L_schema,
               L_comment_eq, L_note, L_comment2>>
RelocatableLines == <<R_true, R_qtrue, R_qTrue, R_q1, R_qTRUE, R_qyes,
                      R_empty, R_qspaced, R_qqtrue, R_false>>
SuperuserLines == <<U_true, U_qtrue, U_qTrue, U_q1, U_qTRUE, U_qyes,
                    U_empty, U_qspaced, U_qqtrue, U_false>>

\* The lines manifests are written with; a manifest names its lines by
\* their index here, so a state holds a short sequence of numbers
Lines == BaseLines \o RelocatableLines \o SuperuserLines

IndexOf(l) == CHOOSE i \in 1..Len(Lines) : Lines[i] = l

\* the lines the general manifests draw from
Pool == 1..Len(BaseLines)

\* longest manifest, in lines
MaxLines == 6

Range(s) == {s[i] : i \in 1..Len(s)}

\* no line is written twice
Injective(m) == \A i, j \in 1..Len(m) : m[i] = m[j] => i = j

\* the manifests of at most max lines of Pool
Manifests(max) ==
    UNION {{m \in [1..n -> Pool] : Injective(m)} : n \in 0..max}

InitControl ==
    /\ pc = "start"
    /\ input \in Manifests(MaxLines)
    /\ temp = EmptyMap
    /\ result = NoResult
    /\ VariadicIdle
    /\ TextIdle
    /\ AggIdle

\* manifests with the three text keys and one spelling of each boolean
BoolManifests ==
    {<<IndexOf(L_comment), IndexOf(L_version), IndexOf(L_module),
       IndexOf(r), IndexOf(u)>> :
        r \in Range(RelocatableLines), u \in Range(SuperuserLines)}

InitBool ==
    /\ pc = "start"
    /\ input \in BoolManifests
    /\ temp = EmptyMap
    /\ result = NoResult
    /\ VariadicIdle
    /\ TextIdle
    /\ AggIdle

\* a map that keeps the value a key already has
insert_keep_first(t, k, v) ==
    [x \in (DOMAIN t) \cup {k} |-> IF x \in DOMAIN t THEN t[x] ELSE v]

\* HashMap::insert: a later insert of the same key replaces the value
insert(t, k, v) ==
    [x \in (DOMAIN t) \cup {k} |-> IF x = k THEN v ELSE t[x]]

\* parse_line over every line the inputs are built from, computed once
line_kv == [l \in 1..Len(Lines) |-> parse_line(Lines[l])]

\* The loop of lines 41-54: temp after the lines i..Len(lines), from t
RECURSIVE collect(_, _, _)
collect(lines, i, t) ==
    IF i > Len(lines) THEN t
    ELSE LET kv == line_kv[lines[i]]
         IN  collect(lines, i + 1,
                     IF kv.accepted THEN insert(t, kv.k, kv.v) ELSE t)

\* a comparison that ignores the case of the letters
to_lower(c) ==
    CASE c = "T" -> "t" [] c = "R" -> "r" [] c = "U" -> "u" [] c = "E" -> "e"
      [] OTHER -> c

is_true_ignore_case(v) == [i \in 1..Len(v) |-> to_lower(v[i])] = V_true

\* `== &"true"` of lines 83 and 90
is_true(v) == v = V_true

\* Result<ControlFile, ControlFileError>
Ok(cf) == [kind |-> "Ok", value |-> cf]
MissingField(f) == [kind |-> "MissingField", field |-> f]

\* a construction that lets an absent boolean key default to false
build_optional_bools(t) ==
    IF K_comment \notin DOMAIN t THEN MissingField(K_comment)
    ELSE IF K_default_version \notin DOMAIN t THEN MissingField(K_default_version)
    ELSE IF K_module_pathname \notin DOMAIN t THEN MissingField(K_module_pathname)
    ELSE Ok([comment         |-> t[K_comment],
             default_version |-> t[K_default_version],
             module_pathname |-> t[K_module_pathname],
             relocatable     |-> K_relocatable \in DOMAIN t
                                 /\ is_true(t[K_relocatable]),
             superuser       |-> K_superuser \in DOMAIN t
                                 /\ is_true(t[K_superuser]),
             schema          |-> IF K_schema \in DOMAIN t
                                 THEN Some(t[K_schema]) ELSE None])

\* a construction that lets an absent module_pathname default to ""
build_default_module(t) ==
    IF K_comment \notin DOMAIN t THEN MissingField(K_comment)
    ELSE IF K_default_version \notin DOMAIN t THEN MissingField(K_default_version)
    ELSE IF K_relocatable \notin DOMAIN t THEN MissingField(K_relocatable)
    ELSE IF K_superuser \notin DOMAIN t THEN MissingField(K_superuser)
    ELSE Ok([comment         |-> t[K_comment],
             default_version |-> t[K_default_version],
             module_pathname |-> IF K_module_pathname \in DOMAIN t
                                 THEN t[K_module_pathname] ELSE <<>>,
             relocatable     |-> is_true(t[K_relocatable]),
             superuser       |-> is_true(t[K_superuser]),
             schema          |-> IF K_schema \in DOMAIN t
                                 THEN Some(t[K_schema]) ELSE None])

\* Lines 55-92: the fields are read in declaration order, and the first
\* `?` on an absent key returns the error
build(t) ==
    IF K_comment \notin DOMAIN t THEN MissingField(K_comment)
    ELSE IF K_default_version \notin DOMAIN t THEN MissingField(K_default_version)
    ELSE IF K_module_pathname \notin DOMAIN t THEN MissingField(K_module_pathname)
    ELSE IF K_relocatable \notin DOMAIN t THEN MissingField(K_relocatable)
    ELSE IF K_superuser \notin DOMAIN t THEN MissingField(K_superuser)
    ELSE Ok([comment         |-> t[K_comment],
             default_version |-> t[K_default_version],
             module_pathname |-> t[K_module_pathname],
             relocatable     |-> is_true(t[K_relocatable]),
             superuser       |-> is_true(t[K_superuser]),
             schema          |-> IF K_schema \in DOMAIN t
                                 THEN Some(t[K_schema]) ELSE None])

\* ControlFile::from_str as one step: the loop, then the construction
FromStr ==
    /\ pc = "start"
    /\ temp' = collect(input, 1, EmptyMap)
    /\ result' = build(temp')
    /\ pc' = "done"
    /\ UNCHANGED <<input, variadicVars, textVars, aggVars>>

NextControl == FromStr

SpecControl == InitControl /\ [][NextControl]_vars

SpecBool == InitBool /\ [][NextControl]_vars

(***************************************************************************)
(* MaybeVariadicType::new and MaybeVariadicTypeList::new                   *)
(***************************************************************************)

\* syn::Type, the three shapes the code tells apart: a path type (i32), a
\* macro invocation in type position (path!(tokens)) and a tuple
PathType(n) ==
    [kind |-> "Path", name |-> n, path |-> <<>>, tokens |-> <<>>, elems |-> <<>>]
MacroType(p, toks) ==
    [kind |-> "Macro", name |-> "", path |-> p, tokens |-> toks, elems |-> <<>>]
TupleType(es) ==
    [kind |-> "Tuple", name |-> "", path |-> <<>>, tokens |-> <<>>, elems |-> es]

\* Option<Type>
NoneType == [some |-> FALSE, v |-> PathType("")]
SomeType(t) == [some |-> TRUE, v |-> t]

\* Result<_, syn::Error>; the error carries the tokens it points at
SynOk(x) == [kind |-> "Ok", value |-> x]
SynErr(toks) == [kind |-> "Err", tokens |-> toks]

TypeNames == {"i32", "String"}

\* syn::parse2::<Type>(tokens): a token stream that is one type name parses
\* to that type; the empty stream and a stray `,` are errors
parse2(toks) ==
    IF Len(toks) = 1 /\ toks[1] \in TypeNames
    THEN SynOk(PathType(toks[1])) ELSE SynErr(toks)

\* The loop of lines 66-72 over the path's segments; idx counts from 0
RECURSIVE scan_segments(_, _, _)
scan_segments(segments, idx, found) ==
    IF idx >= Len(segments) THEN found
    ELSE LET ident == segments[idx + 1]
         IN  scan_segments(segments, idx + 1,
                IF ident = "pgx" /\ idx = 1
                THEN [found EXCEPT !.pgx = TRUE]
                ELSE IF ident = "variadic"
                THEN [found EXCEPT !.variadic = TRUE]
                ELSE found)

\* MaybeVariadicType::new
MaybeVariadicType_new(t) ==
    IF t.kind = "Macro"
    THEN LET found == scan_segments(t.path, 0,
                                    [pgx |-> FALSE, variadic |-> FALSE])
         IN  IF (Len(t.path) = 1 /\ found.variadic)
                \/ (found.pgx /\ found.variadic)
             THEN LET inner == parse2(t.tokens)
                  IN  IF inner.kind = "Err" THEN inner
                      ELSE SynOk([ty |-> t, variadic_ty |-> SomeType(inner.value)])
             ELSE SynOk([ty |-> t, variadic_ty |-> NoneType])
    ELSE SynOk([ty |-> t, variadic_ty |-> NoneType])

\* a loop that leaves out the elements it cannot classify
RECURSIVE classify_elems_skipping(_, _, _)
classify_elems_skipping(elems, i, coll) ==
    IF i > Len(elems) THEN SynOk(coll)
    ELSE LET parsed_elem == MaybeVariadicType_new(elems[i])
         IN  IF parsed_elem.kind = "Err"
             THEN classify_elems_skipping(elems, i + 1, coll)
             ELSE classify_elems_skipping(elems, i + 1,
                                          Append(coll, parsed_elem.value))

\* The loop of lines 15-19: the `?` returns the first error
RECURSIVE classify_elems(_, _, _)
classify_elems(elems, i, coll) ==
    IF i > Len(elems) THEN SynOk(coll)
    ELSE LET parsed_elem == MaybeVariadicType_new(elems[i])
         IN  IF parsed_elem.kind = "Err" THEN parsed_elem
             ELSE classify_elems(elems, i + 1, Append(coll, parsed_elem.value))

\* MaybeVariadicTypeList::new
MaybeVariadicTypeList_new(maybe_type_list) ==
    LET coll == IF maybe_type_list.kind = "Tuple"
                THEN classify_elems(maybe_type_list.elems, 1, <<>>)
                ELSE classify_elems(<<maybe_type_list>>, 1, <<>>)
    IN  IF coll.kind = "Err" THEN coll
        ELSE SynOk([found |-> coll.value, original |-> maybe_type_list])

\* the identifiers macro paths are written with
Idents == {"pgx", "variadic", "other", "a", "foo"}

\* longest macro path, in segments
MaxSegments == 3

\* longest tuple, in elements
MaxTupleLen == 3

\* the token streams macros are invoked on
TokenStreams == {<<"i32">>, <<>>, <<",">>}

MacroTypes ==
    {MacroType(p, toks) :
        p \in UNION {[1..n -> Idents] : n \in 1..MaxSegments},
        toks \in TokenStreams}

\* the types tuples are made of
ElemTypes ==
    {PathType("i32"),
     MacroType(<<"variadic">>, <<"String">>),
     MacroType(<<"pgx", "variadic">>, <<"i32">>),
     MacroType(<<"foo">>, <<>>),
     MacroType(<<"variadic">>, <<>>),
     MacroType(<<"a", "pgx", "variadic">>, <<",">>)}

TupleTypes ==
    {TupleType(es) : es \in UNION {[1..n -> ElemTypes] : n \in 0..MaxTupleLen}}

InitVariadic ==
    /\ pc = "start"
    /\ ty \in {PathType(n) : n \in TypeNames} \cup MacroTypes \cup TupleTypes
    /\ shape = NoResult
    /\ list = NoResult
    /\ ControlIdle
    /\ TextIdle
    /\ AggIdle

\* a call of MaybeVariadicType::new(ty)
TypeNew ==
    /\ pc = "start"
    /\ shape' = MaybeVariadicType_new(ty)
    /\ pc' = "done"
    /\ UNCHANGED <<ty, list, controlVars, textVars, aggVars>>

\* a call of MaybeVariadicTypeList::new(ty)
ListNew ==
    /\ pc = "start"
    /\ list' = MaybeVariadicTypeList_new(ty)
    /\ pc' = "done"
    /\ UNCHANGED <<ty, shape, controlVars, textVars, aggVars>>

NextVariadic == TypeNew \/ ListNew

SpecVariadic == InitVariadic /\ [][NextVariadic]_vars

(***************************************************************************)
(* IntegerAvgState: the text form (PgVarlenaInOutFuncs)                    *)
(***************************************************************************)

\* i32::MAX and i32::MIN
I32_MAX == 2147483647
I32_MIN == -I32_MAX - 1

DigitChars == <<"0", "1", "2", "3", "4", "5", "6", "7", "8", "9">>
IsDigit(c) == \E d \in 1..10 : DigitChars[d] = c
DigitValue(c) == (CHOOSE d \in 1..10 : DigitChars[d] = c) - 1

ParseOk(x) == [kind |-> "Ok", value |-> x]
ParseErr == [kind |-> "Err"]

\* The digit loop of i32::from_str for a number without a minus sign:
\* checked_mul(10), then checked_add(digit)
RECURSIVE from_digits_pos(_, _, _)
from_digits_pos(s, i, acc) ==
    IF i > Len(s) THEN ParseOk(acc)
    ELSE IF ~IsDigit(s[i]) THEN ParseErr
    ELSE IF acc > I32_MAX \div 10 THEN ParseErr
    ELSE IF acc * 10 > I32_MAX - DigitValue(s[i]) THEN ParseErr
    ELSE from_digits_pos(s, i + 1, acc * 10 + DigitValue(s[i]))

\* The digit loop for a number with a minus sign: checked_mul(10), then
\* checked_sub(digit); acc is never positive
RECURSIVE from_digits_neg(_, _, _)
from_digits_neg(s, i, acc) ==
    IF i > Len(s) THEN ParseOk(acc)
    ELSE IF ~IsDigit(s[i]) THEN ParseErr
    ELSE IF acc < -(I32_MAX \div 10) THEN ParseErr
    ELSE IF acc * 10 < I32_MIN + DigitValue(s[i]) THEN ParseErr
    ELSE from_digits_neg(s, i + 1, acc * 10 - DigitValue(s[i]))

\* <i32 as FromStr>::from_str: an optional sign, then one or more digits
i32_from_str(s) ==
    IF s = <<>> THEN ParseErr
    ELSE IF s = <<"+">> \/ s = <<"-">> THEN ParseErr
    ELSE IF Head(s) = "+" THEN from_digits_pos(Tail(s), 1, 0)
    ELSE IF Head(s) = "-" THEN from_digits_neg(Tail(s), 1, 0)
    ELSE from_digits_pos(s, 1, 0)

\* the decimal digits of -m, for m <= 0
RECURSIVE digits_of_neg(_)
digits_of_neg(m) ==
    LET last == (10 - (m % 10)) % 10
        rest == (m + last) \div 10
    IN  IF rest = 0 THEN <<DigitChars[last + 1]>>
        ELSE Append(digits_of_neg(rest), DigitChars[last + 1])

\* a formatter that writes the magnitude and forgets the sign
fmt_i32_unsigned(x) ==
    IF x < 0 THEN digits_of_neg(x) ELSE digits_of_neg(-x)

\* format!("{}", x) for an i32
fmt_i32(x) ==
    IF x < 0 THEN <<"-">> \o digits_of_neg(x) ELSE digits_of_neg(-x)

Panic(msg) == [kind |-> "Panic", msg |-> msg]

\* an input that reads the text after the first comma as one field
IntegerAvgState_input_first_comma(bytes) ==
    LET fields == split(bytes, ",")
        commas == {i \in 1..Len(bytes) : bytes[i] = ","}
        sum    == i32_from_str(fields[1])
    IN  IF sum.kind = "Err" THEN Panic("invalid i32")
        ELSE IF Len(fields) < 2 THEN Panic("expected n")
        ELSE LET first == CHOOSE c \in commas : \A d \in commas : c <= d
                 n == i32_from_str(SubSeq(bytes, first + 1, Len(bytes)))
             IN  IF n.kind = "Err" THEN Panic("invalid i32")
                 ELSE ParseOk([sum |-> sum.value, n |-> n.value])

\* IntegerAvgState::input (lines 19-34): the bytes are split at every comma
\* and the first two pieces are read
IntegerAvgState_input(bytes) ==
    LET fields == split(bytes, ",")
        sum    == i32_from_str(fields[1])
    IN  IF sum.kind = "Err" THEN Panic("invalid i32")
        ELSE IF Len(fields) < 2 THEN Panic("expected n")
        ELSE LET n == i32_from_str(fields[2])
             IN  IF n.kind = "Err" THEN Panic("invalid i32")
                 ELSE ParseOk([sum |-> sum.value, n |-> n.value])

\* IntegerAvgState::output (lines 35-37): what push_str appends
IntegerAvgState_output(self) == fmt_i32(self.sum) \o <<",">> \o fmt_i32(self.n)

\* the characters input texts are written with
Alphabet == {"6", "3", "9", ",", "-", "+", "x"}

\* longest input text, in characters
MaxTextLen == 5

\* texts at and over the ends of the i32 range
RangeTexts ==
    {<<"2", "1", "4", "7", "4", "8", "3", "6", "4", "7", ",", "1">>, <<"2", "1", "4", "7", "4", "8", "3", "6", "4", "8", ",", "1">>, <<"-", "2", "1", "4", "7", "4", "8", "3", "6", "4", "8", ",", "1">>, <<"-", "2", "1", "4", "7", "4", "8", "3", "6", "4", "9", ",", "1">>,
     <<"1", ",", "2", "1", "4", "7", "4", "8", "3", "6", "4", "8">>, <<"1", ",", "-", "2", "1", "4", "7", "4", "8", "3", "6", "4", "9">>, <<"0", ",", "0">>, <<"0", "0", "7", ",", "-", "0">>, <<"1", "2", ",", "1", "0", ",">>}

Texts(max) == UNION {[1..n -> Alphabet] : n \in 0..max} \cup RangeTexts

\* largest magnitude of the small sums and counts written
MaxSmall == 3

SampleInts ==
    (-MaxSmall..MaxSmall) \cup {6, 10, -10, 105, -120, I32_MAX, I32_MIN}

\* input called on a text
InitText ==
    /\ pc = "text"
    /\ buffer \in Texts(MaxTextLen)
    /\ state = NoResult
    /\ parsed = NoResult
    /\ ControlIdle
    /\ VariadicIdle
    /\ AggIdle

\* output called on a state, input on what it wrote
InitState ==
    /\ pc = "state"
    /\ state \in [sum : SampleInts, n : SampleInts]
    /\ buffer = <<>>
    /\ parsed = NoResult
    /\ ControlIdle
    /\ VariadicIdle
    /\ AggIdle

Output ==
    /\ pc = "state"
    /\ buffer' = buffer \o IntegerAvgState_output(state)
    /\ pc' = "text"
    /\ UNCHANGED <<state, parsed, controlVars, variadicVars, aggVars>>

Input ==
    /\ pc = "text"
    /\ parsed' = IntegerAvgState_input(buffer)
    /\ pc' = "done"
    /\ UNCHANGED <<state, buffer, controlVars, variadicVars, aggVars>>

NextText == Output \/ Input

SpecText == (InitText \/ InitState) /\ [][NextText]_vars

(***************************************************************************)
(* IntegerAvgState: acc and finalize                                       *)
(***************************************************************************)

\* whether a + b is an i32
AddFits(a, b) == IF b >= 0 THEN a <= I32_MAX - b ELSE a >= I32_MIN - b

\* i32 `+`: an overflow panics where overflow checks are on (debug builds)
\* and wraps modulo 2^32 where they are off (release builds)
i32_add(a, b, checks) ==
    IF AddFits(a, b) THEN ParseOk(a + b)
    ELSE IF checks = "debug" THEN Panic("attempt to add with overflow")
    ELSE IF b > 0 THEN ParseOk((a + I32_MIN) + (b + I32_MIN))
    ELSE ParseOk((a - I32_MIN) + (b - I32_MIN))

\* a division that rounds toward minus infinity
i32_div_floor(a, b) ==
    IF b = 0 THEN Panic("attempt to divide by zero")
    ELSE IF a = I32_MIN /\ b = -1 THEN Panic("attempt to divide with overflow")
    ELSE IF b > 0 THEN ParseOk(a \div b)
    ELSE IF b = I32_MIN THEN ParseOk(IF a = I32_MIN THEN 1 ELSE 0)
    ELSE ParseOk(-(IF a >= 0 THEN a \div (-b) ELSE (a - b - 1) \div (-b)))

\* i32 `/`: the quotient truncated toward zero; a zero divisor and
\* i32::MIN / -1 panic in every build
i32_div(a, b) ==
    IF b = 0 THEN Panic("attempt to divide by zero")
    ELSE IF a = I32_MIN /\ b = -1 THEN Panic("attempt to divide with overflow")
    ELSE IF b > 0
         THEN ParseOk(IF a >= 0 THEN a \div b ELSE (a + b - 1) \div b)
    ELSE IF b = I32_MIN THEN ParseOk(IF a = I32_MIN THEN 1 ELSE 0)
    ELSE ParseOk(-(IF a >= 0 THEN a \div (-b) ELSE (a - b - 1) \div (-b)))

\* Default for IntegerAvgState (lines 86-90)
Default == [sum |-> 0, n |-> 0]

\* INITIAL_CONDITION (line 55) and initcond (line 124)
INITIAL_CONDITION == <<"0", ",", "0">>

\* IntegerAvgState::acc (lines 93-98): a new state; self is only read
acc(self, v, checks) ==
    LET sum == i32_add(self.sum, v, checks)
        n   == i32_add(self.n, 1, checks)
    IN  IF sum.kind = "Panic" THEN sum
        ELSE IF n.kind = "Panic" THEN n
        ELSE ParseOk([sum |-> sum.value, n |-> n.value])

\* IntegerAvgState::finalize (lines 99-101)
finalize(self) == i32_div(self.sum, self.n)

\* the values accumulated
Values == {-7, -1, 0, 1, 2, 3, I32_MAX, I32_MIN}

\* most values accumulated in one run
MaxInputs == 3

Last(s) == s[Len(s)]

InitAgg ==
    /\ pc = "acc"
    /\ profile \in {"debug", "release"}
    /\ states \in {<<Default>>, <<IntegerAvgState_input(INITIAL_CONDITION).value>>}
    /\ vs = <<>>
    /\ final = NoResult
    /\ ControlIdle
    /\ VariadicIdle
    /\ TextIdle

\* integer_avg_state_func(internal_state, next_data_value) (lines 105-110)
Acc ==
    /\ pc = "acc"
    /\ Len(vs) < MaxInputs
    /\ \E v \in Values :
          LET new == acc(Last(states), v, profile)
          IN  /\ vs' = Append(vs, v)
              /\ IF new.kind = "Panic"
                 THEN /\ final' = new
                      /\ pc' = "panicked"
                      /\ UNCHANGED states
                 ELSE /\ states' = Append(states, new.value)
                      /\ UNCHANGED <<final, pc>>
    /\ UNCHANGED <<profile, controlVars, variadicVars, textVars>>

\* integer_avg_final_func(internal_state) (lines 112-115)
Finalize ==
    /\ pc = "acc"
    /\ final' = finalize(Last(states))
    /\ pc' = "done"
    /\ UNCHANGED <<profile, states, vs, controlVars, variadicVars, textVars>>

NextAgg == Acc \/ Finalize

SpecAgg == InitAgg /\ [][NextAgg]_vars

(***************************************************************************)
(* What the manifest text says, read off the text without the parser:      *)
(* used to state the properties of ControlFile::from_str.                  *)
(***************************************************************************)

MinOf(S) == CHOOSE x \in S : \A y \in S : x <= y
MaxOf(S) == CHOOSE x \in S : \A y \in S : y <= x

\* s without the characters of cs at its two ends
Stripped(s, cs) ==
    LET keep == {j \in 1..Len(s) : s[j] \notin cs}
    IN  IF keep = {} THEN <<>> ELSE SubSeq(s, MinOf(keep), MaxOf(keep))

EqPositions(line) == {j \in 1..Len(line) : line[j] = "="}

\* for each line: how many `=` it holds, and the key and value on either
\* side of its first `=`
Written ==
    [l \in 1..Len(Lines) |->
        LET line == Lines[l]
            eqs  == EqPositions(line)
            p    == IF eqs = {} THEN Len(line) + 1 ELSE MinOf(eqs)
        IN  [n |-> Cardinality(eqs),
             k |-> Stripped(SubSeq(line, 1, p - 1), Whitespace),
             v |-> Stripped(Stripped(SubSeq(line, p + 1, Len(line)),
                                     Whitespace), {"'"})]]

\* the positions of manifest m whose line holds exactly one `=` and key k
LinesFor(m, k) ==
    {i \in 1..Len(m) : Written[m[i]].n = 1 /\ Written[m[i]].k = k}

\* the value of the last such line
LastValue(m, k) == Written[m[MaxOf(LinesFor(m, k))]].v

TextKeys == {K_comment, K_default_version, K_module_pathname}
BoolKeys == {K_relocatable, K_superuser}
AllKeys  == TextKeys \cup BoolKeys \cup {K_schema}

\* the four-line manifest of the end-to-end scenario
DemoManifest ==
    <<IndexOf(L_comment), IndexOf(L_version), IndexOf(L_module),
      IndexOf(L_reloc)>>

\* C1, as first stated: a manifest that supplies comment, default_version and
\* module_pathname parses, an omitted boolean key giving false and an omitted
\* schema None; the four-line demo manifest parses with superuser = false.
C1_OptionalBooleans ==
    (pc = "done" /\ TextKeys \subseteq DOMAIN temp) =>
        /\ result.kind = "Ok"
        /\ (K_relocatable \notin DOMAIN temp => ~result.value.relocatable)
        /\ (K_superuser \notin DOMAIN temp => ~result.value.superuser)
        /\ (K_schema \notin DOMAIN temp => result.value.schema = None)

\* C1, amended: from_str succeeds exactly when the five keys comment,
\* default_version, module_pathname, relocatable and superuser are supplied,
\* whether or not schema is; an omitted schema yields None; with the three text
\* keys supplied, an omitted relocatable or superuser is a MissingField error
\* naming it (relocatable first), so the four-line demo manifest, which has no
\* superuser line, fails with MissingField(superuser).
C1_BooleansRequired ==
    pc = "done" =>
        /\ (result.kind = "Ok") = (TextKeys \cup BoolKeys \subseteq DOMAIN temp)
        /\ (result.kind = "Ok" =>
              result.value.schema =
                 IF LinesFor(input, K_schema) = {} THEN None
                 ELSE Some(LastValue(input, K_schema)))
        /\ (TextKeys \subseteq DOMAIN temp /\ K_relocatable \notin DOMAIN temp
              => result = MissingField(K_relocatable))
        /\ (TextKeys \cup {K_relocatable} \subseteq DOMAIN temp
              /\ K_superuser \notin DOMAIN temp
              => result = MissingField(K_superuser))
        /\ (input = DemoManifest => result = MissingField(K_superuser))

C1_Witness ==
    /\ pc = "done"
    /\ input = DemoManifest
    /\ result = MissingField(K_superuser)

\* C2: when exactly one of comment, default_version, module_pathname is absent
\* from the collected mapping and every other key is present, from_str returns
\* MissingField naming that key, never a ControlFile.
C2_MissingFieldNamed ==
    pc = "done" =>
        \A k \in TextKeys :
            (k \notin DOMAIN temp /\ AllKeys \ {k} \subseteq DOMAIN temp)
                => result = MissingField(k)

C2_Witness ==
    /\ pc = "done"
    /\ K_module_pathname \notin DOMAIN temp
    /\ AllKeys \ {K_module_pathname} \subseteq DOMAIN temp
    /\ result = MissingField(K_module_pathname)

\* the boolean lines whose value is a spelling of true
TrueSpellings ==
    {IndexOf(R_true), IndexOf(R_qtrue), IndexOf(R_qqtrue),
     IndexOf(U_true), IndexOf(U_qtrue), IndexOf(U_qqtrue)}

\* C7: a boolean field that is present is true iff its value, trimmed of
\* whitespace and then of surrounding single quotes, is exactly `true`:
\* true, 'true' (and ''true'') give true; 'True', '1', 'TRUE', 'yes', ' true ',
\* false and the empty value give false; none of them is an error.
C7_BooleanExact ==
    pc = "done" =>
        /\ result.kind = "Ok"
        /\ result.value.relocatable = (input[4] \in TrueSpellings)
        /\ result.value.superuser = (input[5] \in TrueSpellings)

C7_Witness ==
    /\ pc = "done"
    /\ input[4] = IndexOf(R_qTrue)
    /\ input[5] = IndexOf(U_qtrue)
    /\ result.kind = "Ok"
    /\ ~result.value.relocatable
    /\ result.value.superuser

\* C9, as first stated: every line that holds at least one `=` contributes an
\* entry, keyed by the trimmed text before the first `=`, whose value is the
\* trimmed, unquoted text after it (so comment = 'a=b' gives comment "a=b").
C9_SplitOnFirstEquals ==
    pc = "done" =>
        \A i \in 1..Len(input) :
            Written[input[i]].n >= 1 =>
                /\ Written[input[i]].k \in DOMAIN temp
                /\ ((\A j \in (i + 1)..Len(input) :
                        ~(Written[input[j]].n >= 1
                          /\ Written[input[j]].k = Written[input[i]].k))
                    => temp[Written[input[i]].k] = Written[input[i]].v)

\* C9, amended: from_str splits each line on every `=` and keeps the line only
\* if that gives exactly two parts: a line with exactly one `=` contributes
\* the entry (trimmed text before it, trimmed and unquoted text after it);
\* a line with no `=` or with more than one `=` is discarded, so
\* comment = 'a=b' contributes nothing.
C9_ExactlyOneEquals ==
    pc = "done" =>
        /\ DOMAIN temp = {Written[input[i]].k :
                            i \in {j \in 1..Len(input) : Written[input[j]].n = 1}}
        /\ \A k \in DOMAIN temp : temp[k] = LastValue(input, k)

C9_Witness ==
    /\ pc = "done"
    /\ IndexOf(L_comment_eq) \in Range(input)
    /\ IndexOf(L_note) \in Range(input)
    /\ IndexOf(L_version) \in Range(input)
    /\ DOMAIN temp = {K_default_version}
    /\ result = MissingField(K_comment)

\* C10: when a key occurs on several accepted lines, the ControlFile holds the
\* value of the last of them in text order, whatever the earlier ones say and
\* wherever the lines of the other keys stand.
C10_LastWins ==
    (pc = "done" /\ result.kind = "Ok") =>
        /\ result.value.comment = LastValue(input, K_comment)
        /\ result.value.default_version = LastValue(input, K_default_version)
        /\ result.value.module_pathname = LastValue(input, K_module_pathname)
        /\ result.value.relocatable = (LastValue(input, K_relocatable) = V_true)
        /\ result.value.superuser = (LastValue(input, K_superuser) = V_true)
        /\ result.value.schema =
              IF LinesFor(input, K_schema) = {} THEN None
              ELSE Some(LastValue(input, K_schema))

C10_Witness ==
    /\ pc = "done"
    /\ result.kind = "Ok"
    /\ \E i, j \in LinesFor(input, K_comment) :
          /\ i < j
          /\ Written[input[i]].v # Written[input[j]].v
          /\ result.value.comment = Written[input[j]].v

(***************************************************************************)
(* Properties of the variadic classification.                              *)
(***************************************************************************)

\* C3: a macro type is classified variadic (variadic_ty = Some(the type its
\* tokens parse to)) iff its path is exactly `variadic` or exactly
\* `pgx::variadic`; every other macro path and every non-macro type is
\* classified scalar (variadic_ty = None).
C3_StrictVariadicPath ==
    (pc = "done" /\ shape # NoResult) =>
        IF ty.kind = "Macro" /\ ty.path \in {<<"variadic">>, <<"pgx", "variadic">>}
        THEN parse2(ty.tokens).kind = "Ok" =>
                /\ shape.kind = "Ok"
                /\ shape.value.variadic_ty = SomeType(parse2(ty.tokens).value)
        ELSE /\ shape.kind = "Ok"
             /\ shape.value.variadic_ty = NoneType

\* C8: MaybeVariadicTypeList::new on a tuple of N elements returns N shapes,
\* the i-th being the classification of the i-th element; on a non-tuple type
\* it returns the one shape of that type; if an element cannot be classified
\* the call fails with that element's error and returns no list; `original`
\* is the input type.
C8_OneShapePerElement ==
    (pc = "done" /\ list # NoResult) =>
        LET elems  == IF ty.kind = "Tuple" THEN ty.elems ELSE <<ty>>
            failed == {i \in 1..Len(elems) :
                          MaybeVariadicType_new(elems[i]).kind = "Err"}
        IN  IF failed = {}
            THEN /\ list.kind = "Ok"
                 /\ list.value.original = ty
                 /\ Len(list.value.found) = Len(elems)
                 /\ \A i \in 1..Len(elems) :
                       list.value.found[i] = MaybeVariadicType_new(elems[i]).value
            ELSE list = MaybeVariadicType_new(elems[MinOf(failed)])

C8_Witness ==
    /\ pc = "done"
    /\ ty.kind = "Tuple"
    /\ Len(ty.elems) = 3
    /\ list.kind = "Ok"
    /\ Len(list.value.found) = 3
    /\ list.value.found[1].variadic_ty = SomeType(PathType("String"))
    /\ list.value.found[2].variadic_ty = NoneType
    /\ list.value.found[3].ty = PathType("i32")

(***************************************************************************)
(* What a text says as a decimal numeral, read off the text without the    *)
(* parser: used to state the properties of the aggregate's text form.      *)
(***************************************************************************)

Signs == {"+", "-"}

\* the text of s after its sign, if it has one
Unsigned(s) == IF s # <<>> /\ s[1] \in Signs THEN Tail(s) ELSE s

\* an optional sign followed by one or more digits
IsNumeral(s) ==
    /\ Unsigned(s) # <<>>
    /\ \A i \in 1..Len(Unsigned(s)) : IsDigit(Unsigned(s)[i])

\* the digits of a numeral from its first non-zero digit on
Significant(s) ==
    LET u  == Unsigned(s)
        nz == {i \in 1..Len(u) : u[i] # "0"}
    IN  IF nz = {} THEN <<>> ELSE SubSeq(u, MinOf(nz), Len(u))

\* a <= b for two digit strings of the same length
DigitsLeq(a, b) ==
    \/ a = b
    \/ \E i \in 1..Len(a) :
          /\ DigitValue(a[i]) < DigitValue(b[i])
          /\ \A j \in 1..(i - 1) : a[j] = b[j]

\* a numeral whose value lies in -2^31 .. 2^31 - 1
IsI32Numeral(s) ==
    /\ IsNumeral(s)
    /\ LET sig   == Significant(s)
           limit == IF s[1] = "-" THEN <<"2", "1", "4", "7", "4", "8", "3", "6", "4", "8">> ELSE <<"2", "1", "4", "7", "4", "8", "3", "6", "4", "7">>
       IN  \/ Len(sig) < Len(limit)
           \/ Len(sig) = Len(limit) /\ DigitsLeq(sig, limit)

RECURSIVE Pow10(_)
Pow10(k) == IF k = 0 THEN 1 ELSE 10 * Pow10(k - 1)

\* minus the value of the digits sig[i..], place by place
RECURSIVE NegPlaces(_, _)
NegPlaces(sig, i) ==
    IF i > Len(sig) THEN 0
    ELSE NegPlaces(sig, i + 1) - DigitValue(sig[i]) * Pow10(Len(sig) - i)

\* the value of an i32 numeral
NumeralValue(s) ==
    IF s[1] = "-" THEN NegPlaces(Significant(s), 1)
    ELSE -NegPlaces(Significant(s), 1)

\* a numeral as format! writes it: no `+`, no leading zero, no `-0`
IsCanonical(s) ==
    /\ IsNumeral(s)
    /\ s[1] # "+"
    /\ Unsigned(s) = (IF Significant(s) = <<>> THEN <<"0">> ELSE Significant(s))
    /\ (s[1] = "-" => Significant(s) # <<>>)

CommaPositions(s) == {i \in 1..Len(s) : s[i] = ","}

\* the text before the first comma
FirstField(s) == SubSeq(s, 1, MinOf(CommaPositions(s)) - 1)

\* the text after the first comma, whole
AfterFirstComma(s) == SubSeq(s, MinOf(CommaPositions(s)) + 1, Len(s))

\* the text between the first comma and the second, or the end
SecondField(s) ==
    LET c1    == MinOf(CommaPositions(s))
        later == CommaPositions(s) \ {c1}
    IN  SubSeq(s, c1 + 1, IF later = {} THEN Len(s) ELSE MinOf(later) - 1)

\* C4, as first stated: input splits the text on its first comma only, into
\* two fields, and fails unless both are valid decimal i32s; "6,3,9" fails,
\* its second field being "3,9".
C4_SplitOnFirstComma ==
    (pc = "done" /\ state = NoResult) =>
        IF /\ CommaPositions(buffer) # {}
           /\ IsI32Numeral(FirstField(buffer))
           /\ IsI32Numeral(AfterFirstComma(buffer))
        THEN parsed = ParseOk([sum |-> NumeralValue(FirstField(buffer)),
                               n   |-> NumeralValue(AfterFirstComma(buffer))])
        ELSE parsed.kind = "Panic"

\* C4, amended: input splits the text at every comma and reads the first two
\* fields only; it fails unless the text holds a comma and each of the first
\* two fields is a valid decimal i32; a text with more than one comma whose
\* first two fields are valid is accepted and the rest ignored: "6,3,9" gives
\* sum = 6, n = 3.
C4_FirstTwoFields ==
    (pc = "done" /\ state = NoResult) =>
        /\ IF /\ CommaPositions(buffer) # {}
              /\ IsI32Numeral(FirstField(buffer))
              /\ IsI32Numeral(SecondField(buffer))
           THEN parsed = ParseOk([sum |-> NumeralValue(FirstField(buffer)),
                                  n   |-> NumeralValue(SecondField(buffer))])
           ELSE parsed.kind = "Panic"
        /\ (buffer = <<"6", ",", "3", ",", "9">> => parsed = ParseOk([sum |-> 6, n |-> 3]))

C4_Witness ==
    /\ pc = "done"
    /\ state = NoResult
    /\ buffer = <<"6", ",", "3", ",", "9">>
    /\ parsed = ParseOk([sum |-> 6, n |-> 3])

\* C5: output writes exactly "<sum>,<n>" in decimal, and input applied to
\* that text returns the same sum and the same n, for every sum and n of the
\* i32 range, negative values and zero included; {6, 3} <-> "6,3".
C5_RoundTrip ==
    (state # NoResult /\ pc # "state") =>
        /\ Cardinality(CommaPositions(buffer)) = 1
        /\ IsCanonical(FirstField(buffer))
        /\ IsCanonical(SecondField(buffer))
        /\ IsI32Numeral(FirstField(buffer))
        /\ IsI32Numeral(SecondField(buffer))
        /\ NumeralValue(FirstField(buffer)) = state.sum
        /\ NumeralValue(SecondField(buffer)) = state.n
        /\ (state = [sum |-> 6, n |-> 3] => buffer = <<"6", ",", "3">>)
        /\ (pc = "done" => parsed = ParseOk(state))

C5_Witness ==
    /\ pc = "done"
    /\ state = [sum |-> I32_MIN, n |-> -10]
    /\ buffer = <<"-", "2", "1", "4", "7", "4", "8", "3", "6", "4", "8", ",", "-", "1", "0">>
    /\ parsed = ParseOk(state)

(***************************************************************************)
(* Properties of acc and finalize.                                         *)
(***************************************************************************)

\* the sum of the first k values, and whether it can be formed step by step
\* without leaving the i32 range
RECURSIVE PrefixSum(_, _)
PrefixSum(seq, k) == IF k = 0 THEN 0 ELSE PrefixSum(seq, k - 1) + seq[k]

RECURSIVE NoOverflow(_, _)
NoOverflow(seq, k) ==
    \/ k = 0
    \/ /\ NoOverflow(seq, k - 1)
       /\ AddFits(PrefixSum(seq, k - 1), seq[k])

\* q is the quotient of a by b > 0 truncated toward zero: the remainder is
\* smaller than b and is zero or has the sign of a
IsTruncatedQuotient(q, a, b) ==
    LET r == a - q * b
    IN  /\ (a >= 0 => 0 <= r /\ r < b)
        /\ (a <= 0 => -b < r /\ r <= 0)

\* C6: from (sum = 0, n = 0), which Default and the initial condition "0,0"
\* both give, after acc of v1..vk without i32 overflow the state is
\* (v1 + ... + vk, k), every earlier state being left as it was, and finalize
\* returns sum / n truncated toward zero; [1, 2, 3] gives 2.
C6_AccumulateThenFinalize ==
    /\ pc \in {"acc", "done", "panicked"} =>
          /\ states[1] = [sum |-> 0, n |-> 0]
          /\ IntegerAvgState_input(INITIAL_CONDITION) = ParseOk(Default)
          /\ \A k \in 1..Len(vs) :
                NoOverflow(vs, k) =>
                    /\ Len(states) >= k + 1
                    /\ states[k + 1] = [sum |-> PrefixSum(vs, k), n |-> k]
    /\ (pc = "done" /\ Len(vs) >= 1 /\ NoOverflow(vs, Len(vs))) =>
          /\ final.kind = "Ok"
          /\ IsTruncatedQuotient(final.value, PrefixSum(vs, Len(vs)), Len(vs))
          /\ (vs = <<1, 2, 3>> => final.value = 2)

C6_Witness ==
    /\ pc = "done"
    /\ vs = <<-7, 0, 2>>
    /\ states = <<[sum |-> 0, n |-> 0], [sum |-> -7, n |-> 1],
                  [sum |-> -7, n |-> 2], [sum |-> -5, n |-> 3]>>
    /\ final = ParseOk(-1)

=============================================================================
